---- MODULE Spec2Model ----
(***************************************************************************)
(* The in-memory group repository (groupRepositoryMock) of the things      *)
(* service: groups, and the forward and reverse membership indices of      *)
(* things and channels.  Every operation runs under the repository mutex   *)
(* from its first statement to its return.  The specifications of one      *)
(* caller take one operation as one step; SpecLock has two goroutines and  *)
(* takes the mutex and every statement that reads or writes a map as a     *)
(* step.                                                                   *)
(***************************************************************************)
EXTENDS Integers, Sequences, FiniteSets, TLC

\* ------------------------------------------------------------------ bounds
\* Longest forward-index sequence a group grows to in the membership
\* specifications, and the longest ID list passed to Assign*/Unassign*.
MaxLen == 2
\* Longest forward-index sequence in the pagination specification.
MaxPage == 3
\* Width in bits of the model's uint64: Offset, Limit and their sum wrap
\* modulo 2^UintBits.
UintBits == 3

\* ------------------------------------------------------------------ inputs
GroupIDs == {"G1", "G2"}
ThingIDs == {"T1", "T2"}
ChannelIDs == {"C1", "C2"}
OwnerIDs == {"o1", "o2"}
Names == {"n1", "n2"}
Descriptions == {"d1", "d2"}
Metadatas == {"m1", "m2"}
Times == {0, 1}

\* Sequences over S of length at most n.
SeqsUpTo(S, n) == UNION {[1..k -> S] : k \in 0..n}

\* Every things.Group value a caller may pass.
AllGroups ==
    [ID : GroupIDs, OwnerID : OwnerIDs, Name : Names, Description : Descriptions,
     Metadata : Metadatas, CreatedAt : Times, UpdatedAt : Times]

\* The group values the membership specifications pass: one per ID.
PlainGroups ==
    {g \in AllGroups : g.OwnerID = "o1" /\ g.Name = "n1" /\ g.Description = "d1"
                       /\ g.Metadata = "m1" /\ g.CreatedAt = 0 /\ g.UpdatedAt = 0}

\* The group values the group-lifecycle specification passes: per ID, two
\* values that differ in every other field.
ProfileGroups ==
    PlainGroups \cup
    {g \in AllGroups : g.OwnerID = "o2" /\ g.Name = "n2" /\ g.Description = "d2"
                       /\ g.Metadata = "m2" /\ g.CreatedAt = 1 /\ g.UpdatedAt = 1}

\* The ID lists passed to Remove: long enough to name every group and repeat one.
RemoveLists == SeqsUpTo(GroupIDs, Cardinality(GroupIDs) + 1)

\* ------------------------------------------------------------------ values
ErrNil == "nil"
ErrConflict == "ErrConflict"
ErrNotFound == "ErrNotFound"

\* things.Group{}: the zero value returned next to an error.
ZeroGroup ==
    [ID |-> "", OwnerID |-> "", Name |-> "", Description |-> "", Metadata |-> "",
     CreatedAt |-> 0, UpdatedAt |-> 0]

\* 2^UintBits, the modulus of unsigned arithmetic.
UintMod == 2 ^ UintBits

\* ------------------------------------------------------------------ Go maps
\* m[k] = v
MapSet(m, k, v) == [x \in DOMAIN m \cup {k} |-> IF x = k THEN v ELSE m[x]]

\* delete(m, k) for every k in ks
MapDelete(m, ks) == [x \in DOMAIN m \ ks |-> m[x]]

\* m[k] of a map of slices: the nil slice when k is absent
SliceAt(m, k) == IF k \in DOMAIN m THEN m[k] ELSE <<>>

Range(s) == {s[i] : i \in 1..Len(s)}

EmptyMap == [x \in {} |-> x]

\* ------------------------------------------------------------------ state
\* The goroutines that call the repository concurrently.
Goroutines == {"a", "b"}

\* The mutex when no goroutine holds it.
Unlocked == "unlocked"

\* A goroutine that is not in a call.
IdleCall ==
    [pc |-> "idle", op |-> "", groupID |-> "", ids |-> <<>>, group |-> ZeroGroup,
     pm |-> [Offset |-> 0, Limit |-> 0], now |-> 0,
     i |-> 0, j |-> 0, loc |-> <<>>, res |-> "", err |-> "", snap |-> <<>>]

VARIABLES
    groups,             \* map[string]things.Group: group ID -> group
    thingMembership,    \* map[string]string: thing ID -> group ID
    things,             \* map[string][]string: group ID -> thing IDs
    channelMembership,  \* map[string]string: channel ID -> group ID
    channels,           \* map[string][]string: group ID -> channel IDs
    last,               \* the last call: its name, arguments and results
    mu,                 \* sync.Mutex: Unlocked, or the goroutine that holds it
    calls               \* each goroutine's call: its position, arguments and locals

vars == <<groups, thingMembership, things, channelMembership, channels, last,
          mu, calls>>

\* NewGroupRepository
Init ==
    /\ groups = EmptyMap
    /\ thingMembership = EmptyMap
    /\ things = EmptyMap
    /\ channelMembership = EmptyMap
    /\ channels = EmptyMap
    /\ last = [op |-> "NewGroupRepository"]
    /\ mu = Unlocked
    /\ calls = [p \in Goroutines |-> IdleCall]

\* ------------------------------------------------------------------ group lifecycle
\* Save without the check for a stored ID: the group is written over the stored one.
SaveOverwrites(group) ==
    /\ groups' = MapSet(groups, group.ID, group)
    /\ last' = [op |-> "Save", group |-> group, res |-> group, err |-> ErrNil]
    /\ UNCHANGED <<thingMembership, things, channelMembership, channels>>

Save(group) ==
    IF group.ID \in DOMAIN groups
    THEN /\ last' = [op |-> "Save", group |-> group, res |-> ZeroGroup, err |-> ErrConflict]
         /\ UNCHANGED <<groups, thingMembership, things, channelMembership, channels>>
    ELSE /\ groups' = MapSet(groups, group.ID, group)
         /\ last' = [op |-> "Save", group |-> group, res |-> group, err |-> ErrNil]
         /\ UNCHANGED <<thingMembership, things, channelMembership, channels>>

\* Update as a replacement: the input, stamped with the current time.
UpdateReplaces(up, group, now) == [group EXCEPT !.UpdatedAt = now]

\* The record Update stores: up, with the input's Name, Description and Metadata
\* and the current time.
UpdateEntry(up, group, now) ==
    [up EXCEPT !.Name = group.Name, !.Description = group.Description,
               !.Metadata = group.Metadata, !.UpdatedAt = now]

\* Update as an upsert: a group that is not stored is created from the input.
UpdateUpserts(group, now) ==
    LET up == UpdateEntry(IF group.ID \in DOMAIN groups THEN groups[group.ID] ELSE group,
                          group, now) IN
    /\ groups' = MapSet(groups, group.ID, up)
    /\ last' = [op |-> "Update", group |-> group, now |-> now, res |-> ZeroGroup,
                err |-> IF group.ID \in DOMAIN groups THEN ErrNil ELSE ErrNotFound]
    /\ UNCHANGED <<thingMembership, things, channelMembership, channels>>

Update(group, now) ==
    IF group.ID \notin DOMAIN groups
    THEN /\ last' = [op |-> "Update", group |-> group, now |-> now, res |-> ZeroGroup,
                     err |-> ErrNotFound]
         /\ UNCHANGED <<groups, thingMembership, things, channelMembership, channels>>
    ELSE LET up == UpdateEntry(groups[group.ID], group, now) IN
         /\ groups' = MapSet(groups, group.ID, up)
         /\ last' = [op |-> "Update", group |-> group, now |-> now, res |-> up,
                     err |-> ErrNil]
         /\ UNCHANGED <<thingMembership, things, channelMembership, channels>>

\* A cascade that deletes no reverse-index entry.
CascadeNothing(membership, members) == membership

\* The reverse index after Remove's cascade over one group's forward sequence.
Cascade(membership, members) == MapDelete(membership, Range(members))

\* Remove's loop over ids, from the maps gs, tm, cm: the maps and the error it
\* ends with.  The forward indices are read, never written.
RECURSIVE RemoveLoop(_, _, _, _)
RemoveLoop(ids, gs, tm, cm) ==
    IF ids = <<>>
    THEN [groups |-> gs, thingMembership |-> tm, channelMembership |-> cm, err |-> ErrNil]
    ELSE LET id == Head(ids) IN
         IF id \notin DOMAIN gs
         THEN [groups |-> gs, thingMembership |-> tm, channelMembership |-> cm,
               err |-> ErrNotFound]
         ELSE RemoveLoop(Tail(ids), MapDelete(gs, {id}),
                         Cascade(tm, SliceAt(things, id)),
                         Cascade(cm, SliceAt(channels, id)))

Remove(ids) ==
    LET r == RemoveLoop(ids, groups, thingMembership, channelMembership) IN
    /\ groups' = r.groups
    /\ thingMembership' = r.thingMembership
    /\ channelMembership' = r.channelMembership
    /\ last' = [op |-> "Remove", ids |-> ids, err |-> r.err]
    /\ UNCHANGED <<things, channels>>

\* ------------------------------------------------------------------ group queries
\* The orders in which a range over a Go map with key set S may visit its keys.
MapOrders(S) == {o \in [1..Cardinality(S) -> S] : Range(o) = S}

RetrieveAll ==
    /\ \E o \in MapOrders(DOMAIN groups) :
           last' = [op |-> "RetrieveAll",
                    res |-> [i \in 1..Len(o) |-> groups[o[i]]], err |-> ErrNil]
    /\ UNCHANGED <<groups, thingMembership, things, channelMembership, channels>>

RetrieveByID(id) ==
    /\ last' = IF id \in DOMAIN groups
               THEN [op |-> "RetrieveByID", id |-> id, res |-> groups[id], err |-> ErrNil]
               ELSE [op |-> "RetrieveByID", id |-> id, res |-> ZeroGroup,
                     err |-> ErrNotFound]
    /\ UNCHANGED <<groups, thingMembership, things, channelMembership, channels>>

\* The IDs of the groups RetrieveByOwner puts in its page.
OwnerItems(ownerID) == DOMAIN groups

\* pm is not read.
RetrieveByOwner(ownerID) ==
    /\ \E o \in MapOrders(OwnerItems(ownerID)) :
           last' = [op |-> "RetrieveByOwner", ownerID |-> ownerID,
                    res |-> [Groups |-> [i \in 1..Len(o) |-> groups[o[i]]],
                             Total |-> Len(o)],
                    err |-> ErrNil]
    /\ UNCHANGED <<groups, thingMembership, things, channelMembership, channels>>

\* ------------------------------------------------------------------ assignment
\* The index of the first x in s, 0 when there is none.
FirstIndex(s, x) ==
    IF x \in Range(s) THEN CHOOSE i \in 1..Len(s) : s[i] = x /\ \A j \in 1..(i - 1) : s[j] # x
    ELSE 0

\* append(s[:i], s[i+1:]...), i counted from 1
RemoveAt(s, i) == [k \in 1..(Len(s) - 1) |-> IF k < i THEN s[k] ELSE s[k + 1]]

\* UnassignThing's loop without the delete of the reverse-index entry.
RECURSIVE UnassignThingLoopKeepsEntry(_, _, _, _)
UnassignThingLoopKeepsEntry(groupID, thingIDs, th, tm) ==
    IF thingIDs = <<>>
    THEN [things |-> th, thingMembership |-> tm, err |-> ErrNil]
    ELSE IF groupID \notin DOMAIN th
    THEN [things |-> th, thingMembership |-> tm, err |-> ErrNotFound]
    ELSE LET thingID == Head(thingIDs)
             i == FirstIndex(th[groupID], thingID)
         IN  UnassignThingLoopKeepsEntry(
                 groupID, Tail(thingIDs),
                 IF i = 0 THEN th ELSE MapSet(th, groupID, RemoveAt(th[groupID], i)),
                 tm)

\* UnassignThing's loop over thingIDs, from the maps th and tm.
RECURSIVE UnassignThingLoop(_, _, _, _)
UnassignThingLoop(groupID, thingIDs, th, tm) ==
    IF thingIDs = <<>>
    THEN [things |-> th, thingMembership |-> tm, err |-> ErrNil]
    ELSE IF groupID \notin DOMAIN th
    THEN [things |-> th, thingMembership |-> tm, err |-> ErrNotFound]
    ELSE LET thingID == Head(thingIDs)
             i == FirstIndex(th[groupID], thingID)
         IN  IF i = 0
             THEN UnassignThingLoop(groupID, Tail(thingIDs), th, tm)
             ELSE UnassignThingLoop(groupID, Tail(thingIDs),
                                    MapSet(th, groupID, RemoveAt(th[groupID], i)),
                                    MapDelete(tm, {thingID}))

UnassignThing(groupID, thingIDs) ==
    IF groupID \notin DOMAIN groups
    THEN /\ last' = [op |-> "UnassignThing", groupID |-> groupID, ids |-> thingIDs,
                     err |-> ErrNotFound]
         /\ UNCHANGED <<groups, thingMembership, things, channelMembership, channels>>
    ELSE LET r == UnassignThingLoop(groupID, thingIDs, things, thingMembership) IN
         /\ things' = r.things
         /\ thingMembership' = r.thingMembership
         /\ last' = [op |-> "UnassignThing", groupID |-> groupID, ids |-> thingIDs,
                     err |-> r.err]
         /\ UNCHANGED <<groups, channelMembership, channels>>

\* AssignThing's loop with deduplication: an ID the group's sequence already
\* holds is not appended again.
RECURSIVE AssignThingLoopDedup(_, _, _, _)
AssignThingLoopDedup(groupID, thingIDs, th, tm) ==
    IF thingIDs = <<>>
    THEN [things |-> th, thingMembership |-> tm]
    ELSE AssignThingLoopDedup(
             groupID, Tail(thingIDs),
             IF Head(thingIDs) \in Range(SliceAt(th, groupID)) THEN th
             ELSE MapSet(th, groupID, Append(SliceAt(th, groupID), Head(thingIDs))),
             MapSet(tm, Head(thingIDs), groupID))

\* AssignThing's loop over thingIDs, from the maps th and tm.
RECURSIVE AssignThingLoop(_, _, _, _)
AssignThingLoop(groupID, thingIDs, th, tm) ==
    IF thingIDs = <<>>
    THEN [things |-> th, thingMembership |-> tm]
    ELSE AssignThingLoop(groupID, Tail(thingIDs),
                         MapSet(th, groupID, Append(SliceAt(th, groupID), Head(thingIDs))),
                         MapSet(tm, Head(thingIDs), groupID))

AssignThing(groupID, thingIDs) ==
    IF groupID \notin DOMAIN groups
    THEN /\ last' = [op |-> "AssignThing", groupID |-> groupID, ids |-> thingIDs,
                     err |-> ErrNotFound]
         /\ UNCHANGED <<groups, thingMembership, things, channelMembership, channels>>
    ELSE LET th0 == IF groupID \in DOMAIN things THEN things
                    ELSE MapSet(things, groupID, <<>>)
             r == AssignThingLoop(groupID, thingIDs, th0, thingMembership)
         IN  /\ things' = r.things
             /\ thingMembership' = r.thingMembership
             /\ last' = [op |-> "AssignThing", groupID |-> groupID, ids |-> thingIDs,
                         err |-> ErrNil]
             /\ UNCHANGED <<groups, channelMembership, channels>>

\* What RetrieveThingMembership returns in the current state.
ThingMembershipResult(thingID) ==
    IF thingID \in DOMAIN thingMembership
    THEN [res |-> thingMembership[thingID], err |-> ErrNil]
    ELSE [res |-> "", err |-> ErrNotFound]

RetrieveThingMembership(thingID) ==
    /\ last' = [op |-> "RetrieveThingMembership", id |-> thingID,
                res |-> ThingMembershipResult(thingID).res,
                err |-> ThingMembershipResult(thingID).err]
    /\ UNCHANGED <<groups, thingMembership, things, channelMembership, channels>>

\* AssignChannel's loop over channelIDs, from the maps ch and cm.
RECURSIVE AssignChannelLoop(_, _, _, _)
AssignChannelLoop(groupID, channelIDs, ch, cm) ==
    IF channelIDs = <<>>
    THEN [channels |-> ch, channelMembership |-> cm]
    ELSE AssignChannelLoop(groupID, Tail(channelIDs),
                           MapSet(ch, groupID, Append(SliceAt(ch, groupID), Head(channelIDs))),
                           MapSet(cm, Head(channelIDs), groupID))

AssignChannel(groupID, channelIDs) ==
    IF groupID \notin DOMAIN groups
    THEN /\ last' = [op |-> "AssignChannel", groupID |-> groupID, ids |-> channelIDs,
                     err |-> ErrNotFound]
         /\ UNCHANGED <<groups, thingMembership, things, channelMembership, channels>>
    ELSE LET r == AssignChannelLoop(groupID, channelIDs, channels, channelMembership) IN
         /\ channels' = r.channels
         /\ channelMembership' = r.channelMembership
         /\ last' = [op |-> "AssignChannel", groupID |-> groupID, ids |-> channelIDs,
                     err |-> ErrNil]
         /\ UNCHANGED <<groups, thingMembership, things>>

\* UnassignChannel's loop over channelIDs, from the maps ch and cm.
RECURSIVE UnassignChannelLoop(_, _, _, _)
UnassignChannelLoop(groupID, channelIDs, ch, cm) ==
    IF channelIDs = <<>>
    THEN [channels |-> ch, channelMembership |-> cm, err |-> ErrNil]
    ELSE IF groupID \notin DOMAIN ch
    THEN [channels |-> ch, channelMembership |-> cm, err |-> ErrNotFound]
    ELSE LET channelID == Head(channelIDs)
             i == FirstIndex(ch[groupID], channelID)
         IN  IF i = 0
             THEN UnassignChannelLoop(groupID, Tail(channelIDs), ch, cm)
             ELSE UnassignChannelLoop(groupID, Tail(channelIDs),
                                      MapSet(ch, groupID, RemoveAt(ch[groupID], i)),
                                      MapDelete(cm, {channelID}))

UnassignChannel(groupID, channelIDs) ==
    IF groupID \notin DOMAIN groups
    THEN /\ last' = [op |-> "UnassignChannel", groupID |-> groupID, ids |-> channelIDs,
                     err |-> ErrNotFound]
         /\ UNCHANGED <<groups, thingMembership, things, channelMembership, channels>>
    ELSE LET r == UnassignChannelLoop(groupID, channelIDs, channels, channelMembership) IN
         /\ channels' = r.channels
         /\ channelMembership' = r.channelMembership
         /\ last' = [op |-> "UnassignChannel", groupID |-> groupID, ids |-> channelIDs,
                     err |-> r.err]
         /\ UNCHANGED <<groups, thingMembership, things>>

\* What RetrieveChannelMembership returns in the current state.
ChannelMembershipResult(channelID) ==
    IF channelID \in DOMAIN channelMembership
    THEN [res |-> channelMembership[channelID], err |-> ErrNil]
    ELSE [res |-> "", err |-> ErrNotFound]

RetrieveChannelMembership(channelID) ==
    /\ last' = [op |-> "RetrieveChannelMembership", id |-> channelID,
                res |-> ChannelMembershipResult(channelID).res,
                err |-> ChannelMembershipResult(channelID).err]
    /\ UNCHANGED <<groups, thingMembership, things, channelMembership, channels>>

\* ------------------------------------------------------------------ relation dumps
\* The {GroupID, ID} pairs of forward index fwd, its groups visited in order o.
RECURSIVE Relations(_, _)
Relations(fwd, o) ==
    IF o = <<>> THEN <<>>
    ELSE [i \in 1..Len(fwd[Head(o)]) |-> [GroupID |-> Head(o), ID |-> fwd[Head(o)][i]]]
         \o Relations(fwd, Tail(o))

RetrieveAllThingRelations ==
    /\ \E o \in MapOrders(DOMAIN things) :
           last' = [op |-> "RetrieveAllThingRelations", res |-> Relations(things, o),
                    err |-> ErrNil]
    /\ UNCHANGED <<groups, thingMembership, things, channelMembership, channels>>

RetrieveAllChannelRelations ==
    /\ \E o \in MapOrders(DOMAIN channels) :
           last' = [op |-> "RetrieveAllChannelRelations", res |-> Relations(channels, o),
                    err |-> ErrNil]
    /\ UNCHANGED <<groups, thingMembership, things, channelMembership, channels>>

\* ------------------------------------------------------------------ paginated queries
\* Page requests: Offset and Limit are unsigned integers of UintBits bits.
PageMetadatas == [Offset : 0..(UintMod - 1), Limit : 0..(UintMod - 1)]

\* last without the clamp to the n members.
PageLastUnclamped(first, limit, n) == (first + limit) % UintMod

\* last, after the clamp to the n members: first + limit wraps.
PageLast(first, limit, n) ==
    LET sum == (first + limit) % UintMod IN IF sum > n THEN n ELSE sum

\* The positions (from 0) the loop reads: first <= i < last.
PageIndices(pm, n) ==
    {i \in 0..(UintMod - 1) : pm.Offset <= i /\ i < PageLast(pm.Offset, pm.Limit, n)}

\* The IDs the loop appends, in order.
PageItems(s, pm) ==
    LET idx == PageIndices(pm, Len(s)) IN
    [k \in 1..Cardinality(idx) |-> s[pm.Offset + k]]

\* PageMetadata.Total of the page holding items, of the n members.
PageTotal(items, n) == Len(items)

\* The page built from forward sequence s; an index past the end panics.
Page(s, pm) ==
    IF \E i \in PageIndices(pm, Len(s)) : i >= Len(s)
    THEN [res |-> [Items |-> <<>>, Total |-> 0], err |-> "panic"]
    ELSE LET items == PageItems(s, pm) IN
         [res |-> [Items |-> items, Total |-> PageTotal(items, Len(s))], err |-> ErrNil]

\* RetrieveGroupThings with RetrieveGroupChannels' answer for a group without
\* a forward-index entry: an empty page and no error.
RetrieveGroupThingsLenient(ownerID, groupID, pm) ==
    /\ last' = LET page == Page(SliceAt(things, groupID), pm) IN
               [op |-> "RetrieveGroupThings", groupID |-> groupID, pm |-> pm,
                res |-> page.res, err |-> page.err]
    /\ UNCHANGED <<groups, thingMembership, things, channelMembership, channels>>

\* ownerID is not read.
RetrieveGroupThings(ownerID, groupID, pm) ==
    /\ last' = IF groupID \notin DOMAIN things
               THEN [op |-> "RetrieveGroupThings", groupID |-> groupID, pm |-> pm,
                     res |-> [Items |-> <<>>, Total |-> 0], err |-> ErrNotFound]
               ELSE LET page == Page(things[groupID], pm) IN
                    [op |-> "RetrieveGroupThings", groupID |-> groupID, pm |-> pm,
                     res |-> page.res, err |-> page.err]
    /\ UNCHANGED <<groups, thingMembership, things, channelMembership, channels>>

\* ownerID is not read.
RetrieveGroupChannels(ownerID, groupID, pm) ==
    /\ last' = IF groupID \notin DOMAIN channels
               THEN [op |-> "RetrieveGroupChannels", groupID |-> groupID, pm |-> pm,
                     res |-> [Items |-> <<>>, Total |-> 0], err |-> ErrNil]
               ELSE LET page == Page(channels[groupID], pm) IN
                    [op |-> "RetrieveGroupChannels", groupID |-> groupID, pm |-> pm,
                     res |-> page.res, err |-> page.err]
    /\ UNCHANGED <<groups, thingMembership, things, channelMembership, channels>>

\* ------------------------------------------------------------------ specifications
\* One caller: calls are made one after the other, so the mutex is free
\* before and after every call and no goroutine is inside one.
OneCaller == UNCHANGED <<mu, calls>>

\* Whether forward sequence fwd[groupID] stays within cap after ids are appended.
Room(fwd, groupID, ids, cap) == Len(SliceAt(fwd, groupID)) + Len(ids) <= cap

\* Thing membership: groups are saved and removed, things assigned and unassigned.
Next ==
    /\ OneCaller
    /\ \/ \E g \in PlainGroups : Save(g)
       \/ \E ids \in RemoveLists : Remove(ids)
       \/ \E g \in GroupIDs, ids \in SeqsUpTo(ThingIDs, MaxLen) :
              Room(things, g, ids, MaxLen) /\ AssignThing(g, ids)
       \/ \E g \in GroupIDs, ids \in SeqsUpTo(ThingIDs, MaxLen) : UnassignThing(g, ids)
       \/ \E t \in ThingIDs : RetrieveThingMembership(t)
       \/ RetrieveAllThingRelations

Spec == Init /\ [][Next]_vars

\* Channel membership: the same, for channels.
NextChannels ==
    /\ OneCaller
    /\ \/ \E g \in PlainGroups : Save(g)
       \/ \E ids \in RemoveLists : Remove(ids)
       \/ \E g \in GroupIDs, ids \in SeqsUpTo(ChannelIDs, MaxLen) :
              Room(channels, g, ids, MaxLen) /\ AssignChannel(g, ids)
       \/ \E g \in GroupIDs, ids \in SeqsUpTo(ChannelIDs, MaxLen) : UnassignChannel(g, ids)
       \/ \E c \in ChannelIDs : RetrieveChannelMembership(c)
       \/ RetrieveAllChannelRelations

SpecChannels == Init /\ [][NextChannels]_vars

\* Both kinds together, one thing and one channel: what an operation on one
\* kind, and what Remove, does to both.
NextBoth ==
    /\ OneCaller
    /\ \/ \E g \in PlainGroups : Save(g)
       \/ \E ids \in RemoveLists : Remove(ids)
       \/ \E g \in GroupIDs, ids \in SeqsUpTo({"T1"}, 1) :
              Room(things, g, ids, MaxLen) /\ AssignThing(g, ids)
       \/ \E g \in GroupIDs, ids \in SeqsUpTo({"T1"}, 1) : UnassignThing(g, ids)
       \/ RetrieveThingMembership("T1")
       \/ \E g \in GroupIDs, ids \in SeqsUpTo({"C1"}, 1) :
              Room(channels, g, ids, MaxLen) /\ AssignChannel(g, ids)
       \/ \E g \in GroupIDs, ids \in SeqsUpTo({"C1"}, 1) : UnassignChannel(g, ids)
       \/ RetrieveChannelMembership("C1")

SpecBoth == Init /\ [][NextBoth]_vars

\* Group lifecycle: groups of every profile are saved, updated, removed and
\* read, next to a thing and a channel that are assigned.
NextGroup ==
    /\ OneCaller
    /\ \/ \E g \in ProfileGroups : Save(g)
       \/ \E g \in ProfileGroups, now \in Times : Update(g, now)
       \/ \E ids \in RemoveLists : Remove(ids)
       \/ RetrieveAll
       \/ \E id \in GroupIDs : RetrieveByID(id)
       \/ \E o \in OwnerIDs : RetrieveByOwner(o)
       \/ \E g \in GroupIDs : Room(things, g, <<"T1">>, 1) /\ AssignThing(g, <<"T1">>)
       \/ \E g \in GroupIDs : Room(channels, g, <<"C1">>, 1) /\ AssignChannel(g, <<"C1">>)

SpecGroup == Init /\ [][NextGroup]_vars

\* Pagination: one group's members are assigned one at a time and its pages read.
NextPage ==
    /\ OneCaller
    /\ \/ \E g \in PlainGroups : g.ID = "G1" /\ Save(g)
       \/ \E t \in ThingIDs \cup {"T3"} :
              Room(things, "G1", <<t>>, MaxPage) /\ AssignThing("G1", <<t>>)
       \/ \E c \in {"C1"} :
              Room(channels, "G1", <<c>>, MaxPage) /\ AssignChannel("G1", <<c>>)
       \/ \E pm \in PageMetadatas : RetrieveGroupThings("o1", "G1", pm)
       \/ \E pm \in PageMetadatas : RetrieveGroupChannels("o1", "G1", pm)

SpecPage == Init /\ [][NextPage]_vars

\* ------------------------------------------------------------------ properties
\* The number of positions of s that hold x.
Count(s, x) == Cardinality({i \in 1..Len(s) : s[i] = x})

\* The groups whose forward sequence in fwd holds r.
GroupsHolding(fwd, r) == {g \in DOMAIN fwd : r \in Range(fwd[g])}

\* Reverse index rev and forward index fwd are two views of one relation over ids.
TwoViews(fwd, rev, ids) ==
    \A r \in ids, g \in GroupIDs :
        /\ (r \in DOMAIN rev /\ rev[r] = g) <=> r \in Range(SliceAt(fwd, g))
        /\ r \in Range(SliceAt(fwd, g)) => Count(fwd[g], r) = 1

\* C1: a resource ID has reverse-index entry G if and only if it appears in the
\* forward sequence of G, and then it appears there exactly once.
C1_IndexConsistency ==
    /\ TwoViews(things, thingMembership, ThingIDs)
    /\ TwoViews(channels, channelMembership, ChannelIDs)

\* C2: every thing and every channel is in the member sequence of at most one
\* group, so an assignment to a new group leaves no entry in the previous one.
C2_Exclusivity ==
    /\ \A t \in ThingIDs : Cardinality(GroupsHolding(things, t)) <= 1
    /\ \A c \in ChannelIDs : Cardinality(GroupsHolding(channels, c)) <= 1

\* C3: when Remove(ids) succeeds, every thing and every channel in the forward
\* sequence of a removed group has no recorded membership afterwards:
\* RetrieveThingMembership / RetrieveChannelMembership return NotFound for it.
C3_RemoveClearsMembership ==
    [][last'.op = "Remove" /\ last'.err = ErrNil =>
          \A i \in 1..Len(last'.ids) :
              /\ \A t \in Range(SliceAt(things, last'.ids[i])) :
                     ThingMembershipResult(t)'.err = ErrNotFound
              /\ \A c \in Range(SliceAt(channels, last'.ids[i])) :
                     ChannelMembershipResult(c)'.err = ErrNotFound]_vars

\* C3 witness: a Remove of both groups has succeeded, each of them with the
\* thing and the channel in its forward sequence.
C3_Witness ==
    /\ last.op = "Remove" /\ last.err = ErrNil /\ Len(last.ids) = 2
    /\ \A i \in 1..2 : /\ SliceAt(things, last.ids[i]) # <<>>
                       /\ SliceAt(channels, last.ids[i]) # <<>>
    /\ DOMAIN groups = {}

\* C4: every GroupID in the result of RetrieveAllThingRelations and
\* RetrieveAllChannelRelations is the ID of a stored group, and a group that
\* Save has just created has no members.
C4_RelationsNameStoredGroups ==
    /\ last.op \in {"RetrieveAllThingRelations", "RetrieveAllChannelRelations"} =>
           \A i \in 1..Len(last.res) : last.res[i].GroupID \in DOMAIN groups
    /\ last.op = "Save" /\ last.err = ErrNil =>
           /\ SliceAt(things, last.group.ID) = <<>>
           /\ SliceAt(channels, last.group.ID) = <<>>

\* C5: Save(g) succeeds exactly when no group with g.ID is stored, and then
\* stores and returns g unchanged; otherwise it returns Conflict and leaves the
\* stored groups as they are.  A Save that repeats a successful Save fails
\* with Conflict.
C5_SaveUniqueID ==
    [][last'.op = "Save" =>
          LET g == last'.group IN
          /\ IF g.ID \in DOMAIN groups
             THEN last'.err = ErrConflict /\ groups' = groups
             ELSE /\ last'.err = ErrNil
                  /\ last'.res = g
                  /\ DOMAIN groups' = DOMAIN groups \cup {g.ID}
                  /\ groups'[g.ID] = g
                  /\ \A id \in DOMAIN groups : groups'[id] = groups[id]
          /\ (last.op = "Save" /\ last.err = ErrNil /\ last.group = g) =>
                 last'.err = ErrConflict]_vars

\* C5 witness: a Save has failed with Conflict on an ID whose stored record
\* differs from the one passed.
C5_Witness ==
    /\ last.op = "Save" /\ last.err = ErrConflict
    /\ last.group.ID \in DOMAIN groups
    /\ groups[last.group.ID].OwnerID # last.group.OwnerID

\* C6: Update overwrites only Name, Description, Metadata and UpdatedAt of the
\* stored group; ID, OwnerID and CreatedAt stay as stored whatever the input
\* carries, and the set of stored IDs, the other groups and the four indices
\* do not change.
C6_UpdateSelectiveMerge ==
    [][last'.op = "Update" =>
          LET g == last'.group IN
          /\ UNCHANGED <<thingMembership, things, channelMembership, channels>>
          /\ DOMAIN groups' = DOMAIN groups
          /\ \A id \in DOMAIN groups \ {g.ID} : groups'[id] = groups[id]
          /\ g.ID \in DOMAIN groups =>
                 /\ last'.err = ErrNil
                 /\ last'.res = groups'[g.ID]
                 /\ groups'[g.ID].Name = g.Name
                 /\ groups'[g.ID].Description = g.Description
                 /\ groups'[g.ID].Metadata = g.Metadata
                 /\ groups'[g.ID].UpdatedAt = last'.now
                 /\ groups'[g.ID].ID = groups[g.ID].ID
                 /\ groups'[g.ID].OwnerID = groups[g.ID].OwnerID
                 /\ groups'[g.ID].CreatedAt = groups[g.ID].CreatedAt]_vars

\* C6 witness: an Update has succeeded whose input carried another OwnerID and
\* CreatedAt than the stored group, while a thing and a channel were assigned.
C6_Witness ==
    /\ last.op = "Update" /\ last.err = ErrNil
    /\ groups[last.group.ID].Name = last.group.Name
    /\ groups[last.group.ID].OwnerID # last.group.OwnerID
    /\ groups[last.group.ID].CreatedAt # last.group.CreatedAt
    /\ DOMAIN thingMembership # {} /\ DOMAIN channelMembership # {}

\* The position of the first ID of ids that is not stored when Remove reaches
\* it (absent from stored, or listed earlier in ids); 0 when there is none.
FirstMissing(ids, stored) ==
    LET missing == {k \in 1..Len(ids) :
                       ids[k] \notin stored \/ \E j \in 1..(k - 1) : ids[j] = ids[k]}
    IN  IF missing = {} THEN 0 ELSE CHOOSE k \in missing : \A j \in missing : k <= j

\* The reverse-index entries of rev that map to group g.
EntriesOf(rev, g) == {r \in DOMAIN rev : rev[r] = g}

\* C7: Remove(id1..idn) whose first missing ID is idk returns NotFound, has
\* removed id1..id(k-1) with their cascaded reverse-index entries, and has left
\* the groups id(k+1)..idn and their memberships untouched.
C7_RemoveStopsAtFirstMissing ==
    [][last'.op = "Remove" =>
          LET ids == last'.ids
              k == FirstMissing(ids, DOMAIN groups)
              removed == {ids[j] : j \in 1..(k - 1)}
              later == ({ids[j] : j \in (k + 1)..Len(ids)} \ removed) \cap DOMAIN groups
          IN  k > 0 =>
              /\ last'.err = ErrNotFound
              /\ DOMAIN groups' = DOMAIN groups \ removed
              /\ \A g \in removed :
                     /\ Range(SliceAt(things, g)) \cap DOMAIN thingMembership' = {}
                     /\ Range(SliceAt(channels, g)) \cap DOMAIN channelMembership' = {}
              /\ \A g \in later :
                     /\ groups'[g] = groups[g]
                     /\ SliceAt(things', g) = SliceAt(things, g)
                     /\ SliceAt(channels', g) = SliceAt(channels, g)
                     /\ EntriesOf(thingMembership', g) = EntriesOf(thingMembership, g)
                     /\ EntriesOf(channelMembership', g) = EntriesOf(channelMembership, g)]_vars

\* C8: RetrieveByOwner returns only groups whose OwnerID is the owner asked
\* for, and its Total is the number of stored groups of that owner.
C8_ByOwnerFiltersOwner ==
    last.op = "RetrieveByOwner" =>
        /\ \A i \in 1..Len(last.res.Groups) : last.res.Groups[i].OwnerID = last.ownerID
        /\ last.res.Total =
               Cardinality({id \in DOMAIN groups : groups[id].OwnerID = last.ownerID})

\* The forward sequence a paginated query of the last call read, when the
\* call was one that found a sequence to page through.
PagedKind == IF last.op = "RetrieveGroupThings" THEN things ELSE channels

PagedCall ==
    \/ last.op = "RetrieveGroupThings" /\ last.groupID \in DOMAIN things
    \/ last.op = "RetrieveGroupChannels"

Min(a, b) == IF a <= b THEN a ELSE b

\* C9: for a forward sequence of N members and any Offset and Limit, the page
\* holds the min(Limit, max(0, N - Offset)) elements at positions
\* [Offset, Offset + Limit) of the sequence, in order.
C9_PageBounds ==
    PagedCall =>
        LET s == SliceAt(PagedKind, last.groupID)
            n == Min(last.pm.Limit, IF Len(s) > last.pm.Offset
                                    THEN Len(s) - last.pm.Offset ELSE 0)
        IN  /\ last.err = ErrNil
            /\ last.res.Items = [k \in 1..n |-> s[last.pm.Offset + k]]

\* C10: the Total of the page is N, the length of the forward sequence,
\* whatever Offset and Limit are.
C10_PageTotal ==
    PagedCall => last.res.Total = Len(SliceAt(PagedKind, last.groupID))

\* ------------------------------------------------------------------ one kind per run
\* Every run works on things alone or on channels alone: the thing operations
\* of Next while no channel index is written, the channel operations of
\* NextChannels while no thing index is written.  Remove and Unassign take
\* lists as long as the set of IDs they are drawn from.
ThingsOnly == channels = EmptyMap /\ channelMembership = EmptyMap

ChannelsOnly == things = EmptyMap /\ thingMembership = EmptyMap

NextKinds ==
    /\ OneCaller
    /\ \/ \E g \in PlainGroups : Save(g)
       \/ \E ids \in SeqsUpTo(GroupIDs, Cardinality(GroupIDs)) : Remove(ids)
       \/ \E g \in GroupIDs, ids \in SeqsUpTo(ThingIDs, MaxLen) :
              ThingsOnly /\ Room(things, g, ids, MaxLen) /\ AssignThing(g, ids)
       \/ \E g \in GroupIDs, ids \in SeqsUpTo(ThingIDs, Cardinality(ThingIDs)) :
              ThingsOnly /\ UnassignThing(g, ids)
       \/ \E t \in ThingIDs : ThingsOnly /\ RetrieveThingMembership(t)
       \/ \E g \in GroupIDs, ids \in SeqsUpTo(ChannelIDs, MaxLen) :
              ChannelsOnly /\ Room(channels, g, ids, MaxLen) /\ AssignChannel(g, ids)
       \/ \E g \in GroupIDs, ids \in SeqsUpTo(ChannelIDs, Cardinality(ChannelIDs)) :
              ChannelsOnly /\ UnassignChannel(g, ids)
       \/ \E c \in ChannelIDs : ChannelsOnly /\ RetrieveChannelMembership(c)

SpecKinds == Init /\ [][NextKinds]_vars

\* An Unassign call l, made in the state with forward index fwd, on a stored
\* group and a non-empty list of IDs none of which is in the group's sequence.
UnassignsNonMembers(l, fwd) ==
    /\ l.groupID \in DOMAIN groups
    /\ l.ids # <<>>
    /\ Range(l.ids) \cap Range(SliceAt(fwd, l.groupID)) = {}

Core == <<groups, thingMembership, things, channelMembership, channels>>

\* C11 as claimed: unassigning, from a stored group, resources that are not in
\* its forward sequence returns no error and leaves the whole state unchanged.
C11_UnassignNonMemberNoError ==
    [][/\ (last'.op = "UnassignThing" /\ UnassignsNonMembers(last', things)) =>
              last'.err = ErrNil /\ UNCHANGED Core
       /\ (last'.op = "UnassignChannel" /\ UnassignsNonMembers(last', channels)) =>
              last'.err = ErrNil /\ UNCHANGED Core]_vars

\* ------------------------------------------------------------------ things and their twin channels
\* The channel an ID list of things corresponds to, ID by ID.
Twin(thingID) == IF thingID = "T1" THEN "C1" ELSE "C2"

Mirror(ids) == [i \in DOMAIN ids |-> Twin(ids[i])]

ThingOps == {"AssignThing", "UnassignThing", "RetrieveThingMembership"}

\* Every call on things is followed by the corresponding call on channels, so
\* a run is one sequence of calls made on things and on channels side by side.
NextTwins ==
    /\ OneCaller
    /\ \/ \E g \in PlainGroups : last.op \notin ThingOps /\ Save(g)
       \/ \E ids \in RemoveLists : last.op \notin ThingOps /\ Remove(ids)
       \/ \E g \in GroupIDs, ids \in SeqsUpTo(ThingIDs, MaxLen) :
              last.op \notin ThingOps /\ Room(things, g, ids, MaxLen) /\ AssignThing(g, ids)
       \/ \E g \in GroupIDs, ids \in SeqsUpTo(ThingIDs, MaxLen) :
              last.op \notin ThingOps /\ UnassignThing(g, ids)
       \/ \E t \in ThingIDs : last.op \notin ThingOps /\ RetrieveThingMembership(t)
       \/ last.op = "AssignThing" /\ AssignChannel(last.groupID, Mirror(last.ids))
       \/ last.op = "UnassignThing" /\ UnassignChannel(last.groupID, Mirror(last.ids))
       \/ last.op = "RetrieveThingMembership" /\ RetrieveChannelMembership(Twin(last.id))

SpecTwins == Init /\ [][NextTwins]_vars

\* The channel indices hold what the thing indices hold, twin for twin; a
\* group without a forward entry counts as a group with an empty sequence.
SameIndices(th, tm, ch, cm) ==
    /\ \A g \in GroupIDs : Mirror(SliceAt(th, g)) = SliceAt(ch, g)
    /\ \A t \in ThingIDs :
           /\ t \in DOMAIN tm <=> Twin(t) \in DOMAIN cm
           /\ t \in DOMAIN tm => tm[t] = cm[Twin(t)]

\* C13: a call on channels returns the error (and, for the membership query,
\* the group) that the corresponding call on things returned, and leaves the
\* channel indices with the thing indices' contents.
C13_ThingChannelSymmetry ==
    [][last.op \in ThingOps =>
           /\ last'.err = last.err
           /\ last.op = "RetrieveThingMembership" => last'.res = last.res
           /\ SameIndices(things', thingMembership', channels', channelMembership')]_vars

\* ------------------------------------------------------------------ assignment, unconditional
\* What an Assign call l on group l.groupID did to its kind's indices: from
\* fwd and rev to fwdN and revN.
AssignAppends(l, fwd, rev, fwdN, revN) ==
    /\ SliceAt(fwdN, l.groupID) = SliceAt(fwd, l.groupID) \o l.ids
    /\ \A g \in GroupIDs \ {l.groupID} : SliceAt(fwdN, g) = SliceAt(fwd, g)
    /\ DOMAIN revN = DOMAIN rev \cup Range(l.ids)
    /\ \A r \in DOMAIN revN :
           revN[r] = IF r \in Range(l.ids) THEN l.groupID ELSE rev[r]

\* C14: AssignThing and AssignChannel return NotFound exactly when the group
\* is not stored, and then change nothing; otherwise they return no error,
\* append every listed ID in order to the group's sequence, duplicates
\* included, set every listed ID's reverse entry to the group whatever it was,
\* so that the membership query then returns the group, and change nothing
\* else.
C14_AssignUnconditional ==
    [][/\ last'.op = "AssignThing" =>
              /\ last'.err = IF last'.groupID \in DOMAIN groups THEN ErrNil
                             ELSE ErrNotFound
              /\ last'.err = ErrNotFound => UNCHANGED Core
              /\ last'.err = ErrNil =>
                     /\ AssignAppends(last', things, thingMembership,
                                      things', thingMembership')
                     /\ \A t \in Range(last'.ids) :
                            ThingMembershipResult(t)' =
                                [res |-> last'.groupID, err |-> ErrNil]
                     /\ UNCHANGED <<groups, channelMembership, channels>>
       /\ last'.op = "AssignChannel" =>
              /\ last'.err = IF last'.groupID \in DOMAIN groups THEN ErrNil
                             ELSE ErrNotFound
              /\ last'.err = ErrNotFound => UNCHANGED Core
              /\ last'.err = ErrNil =>
                     /\ AssignAppends(last', channels, channelMembership,
                                      channels', channelMembership')
                     /\ \A c \in Range(last'.ids) :
                            ChannelMembershipResult(c)' =
                                [res |-> last'.groupID, err |-> ErrNil]
                     /\ UNCHANGED <<groups, thingMembership, things>>]_vars

\* C14 witness: one call has assigned a thing twice to a group, and the thing
\* was, and still is, in another group's sequence; its reverse entry names the
\* group of the call.
C14_Witness ==
    /\ last.op = "AssignThing" /\ last.err = ErrNil
    /\ \E t \in Range(last.ids), h \in GroupIDs \ {last.groupID} :
           /\ Count(last.ids, t) >= 2
           /\ Count(things[last.groupID], t) >= 2
           /\ t \in Range(SliceAt(things, h))
           /\ thingMembership[t] = last.groupID

\* ------------------------------------------------------------------ UnassignThing
\* s without the first occurrence of each ID of ids that it holds, taken in order.
RECURSIVE WithoutFirsts(_, _)
WithoutFirsts(s, ids) ==
    IF ids = <<>> THEN s
    ELSE LET i == FirstIndex(s, Head(ids))
         IN  WithoutFirsts(IF i = 0 THEN s
                           ELSE SubSeq(s, 1, i - 1) \o SubSeq(s, i + 1, Len(s)),
                           Tail(ids))

\* The IDs of ids that an UnassignThing call finds in s, one occurrence of s
\* for each listed occurrence.
RECURSIVE FoundIn(_, _)
FoundIn(s, ids) ==
    IF ids = <<>> THEN {}
    ELSE LET i == FirstIndex(s, Head(ids))
         IN  IF i = 0 THEN FoundIn(s, Tail(ids))
             ELSE {Head(ids)} \cup
                  FoundIn(SubSeq(s, 1, i - 1) \o SubSeq(s, i + 1, Len(s)), Tail(ids))

\* C15: UnassignThing returns NotFound whenever the group is not stored or has
\* no forward-index entry, whatever the ID list, the empty one included;
\* otherwise it returns no error, removes the first occurrence of each listed
\* ID found in the group's sequence, keeping the order of the rest, and deletes
\* the reverse entries of the IDs found.
C15_UnassignThing ==
    [][last'.op = "UnassignThing" =>
           IF last'.groupID \notin DOMAIN groups \/ last'.groupID \notin DOMAIN things
           THEN last'.err = ErrNotFound
           ELSE /\ last'.err = ErrNil
                /\ things'[last'.groupID] =
                       WithoutFirsts(things[last'.groupID], last'.ids)
                /\ thingMembership' =
                       MapDelete(thingMembership,
                                 FoundIn(things[last'.groupID], last'.ids))]_vars

\* ------------------------------------------------------------------ every operation, one group
\* Page requests of the first two offsets and limits.
FewPages == {pm \in PageMetadatas : pm.Offset <= 1 /\ pm.Limit <= 1}

\* Every operation on small inputs: G1 is the one group ever stored, G2 an ID
\* that names no group; T1 and C1 are the resources.
NextWide ==
    /\ OneCaller
    /\ \/ \E g \in PlainGroups : g.ID = "G1" /\ Save(g)
       \/ \E g \in PlainGroups : Update(g, 1)
       \/ \E ids \in SeqsUpTo(GroupIDs, 2) : Remove(ids)
       \/ \E id \in GroupIDs : RetrieveByID(id)
       \/ \E g \in GroupIDs, ids \in SeqsUpTo({"T1"}, MaxLen) :
              Room(things, g, ids, MaxLen) /\ AssignThing(g, ids)
       \/ \E g \in GroupIDs, ids \in SeqsUpTo({"T1"}, MaxLen) : UnassignThing(g, ids)
       \/ RetrieveThingMembership("T1")
       \/ \E g \in GroupIDs, pm \in FewPages : RetrieveGroupThings("o1", g, pm)
       \/ \E g \in GroupIDs, ids \in SeqsUpTo({"C1"}, MaxLen) :
              Room(channels, g, ids, MaxLen) /\ AssignChannel(g, ids)
       \/ \E g \in GroupIDs, ids \in SeqsUpTo({"C1"}, MaxLen) : UnassignChannel(g, ids)
       \/ RetrieveChannelMembership("C1")
       \/ \E g \in GroupIDs, pm \in FewPages : RetrieveGroupChannels("o1", g, pm)

SpecWide == Init /\ [][NextWide]_vars

\* C16: a group ID gets its forward-index entry of things by a successful
\* AssignThing call and by nothing else, and never loses it; RetrieveGroupThings
\* returns NotFound exactly for a group ID without that entry, stored or not;
\* RetrieveGroupChannels returns no error for any group ID, and an empty page
\* for one without channel entries.
C16_EmptyMembershipPolicy ==
    [][/\ DOMAIN things' =
              DOMAIN things \cup
              (IF last'.op = "AssignThing" /\ last'.err = ErrNil
               THEN {last'.groupID} ELSE {})
       /\ last'.op = "RetrieveGroupThings" =>
              last'.err = IF last'.groupID \in DOMAIN things THEN ErrNil
                          ELSE ErrNotFound
       /\ last'.op = "RetrieveGroupChannels" =>
              /\ last'.err = ErrNil
              /\ last'.groupID \notin DOMAIN channels =>
                     last'.res = [Items |-> <<>>, Total |-> 0]]_vars

\* C16 witness: RetrieveGroupThings has returned NotFound for a stored group
\* that has channels and no forward-index entry of things.
C16_Witness ==
    /\ last.op = "RetrieveGroupThings" /\ last.err = ErrNotFound
    /\ last.groupID \in DOMAIN groups
    /\ last.groupID \notin DOMAIN things
    /\ SliceAt(channels, last.groupID) # <<>>

\* C17: a call other than Remove that returns an error leaves groups and the
\* four indices as they were.
C17_ErrorChangesNothing ==
    [][(last'.op # "Remove" /\ last'.err # ErrNil) => UNCHANGED Core]_vars

\* C17 witness: UnassignThing has failed on a list of two IDs that both have a
\* reverse-index entry, and the entries are still there.
C17_Witness ==
    /\ last.op = "UnassignThing" /\ last.err = ErrNotFound
    /\ Len(last.ids) = 2
    /\ \A i \in 1..2 : last.ids[i] \in DOMAIN thingMembership
    /\ \E g \in DOMAIN things : things[g] # <<>>

\* ------------------------------------------------------------------ reverse index
\* C18: whenever RetrieveThingMembership or RetrieveChannelMembership would
\* return a group, the group is stored and its forward sequence holds the
\* resource.
C18_ReverseNeverDangling ==
    /\ \A t \in ThingIDs :
           ThingMembershipResult(t).err = ErrNil =>
               /\ ThingMembershipResult(t).res \in DOMAIN groups
               /\ t \in Range(SliceAt(things, ThingMembershipResult(t).res))
    /\ \A c \in ChannelIDs :
           ChannelMembershipResult(c).err = ErrNil =>
               /\ ChannelMembershipResult(c).res \in DOMAIN groups
               /\ c \in Range(SliceAt(channels, ChannelMembershipResult(c).res))

\* C18 witness: a group has been removed; a thing of another, stored group
\* still has its reverse entry, while a second thing in that group's sequence,
\* assigned to the removed group later, has lost its entry.
C18_Witness ==
    /\ last.op = "Remove" /\ last.err = ErrNil /\ last.ids # <<>>
    /\ \E t \in DOMAIN thingMembership :
           /\ thingMembership[t] \in DOMAIN groups
           /\ \E u \in Range(things[thingMembership[t]]) :
                  /\ u \notin DOMAIN thingMembership
                  /\ \E h \in Range(last.ids) : u \in Range(SliceAt(things, h))

\* ------------------------------------------------------------------ other groups' memberships
\* The reverse entries of rev that map to a group outside gs are in revN as
\* they were, and the sequences of fwd of the groups outside gs are in fwdN
\* as they were.
OthersKept(gs, fwd, rev, fwdN, revN) ==
    /\ \A r \in DOMAIN rev :
           rev[r] \notin gs => r \in DOMAIN revN /\ revN[r] = rev[r]
    /\ \A g \in GroupIDs \ gs : SliceAt(fwdN, g) = SliceAt(fwd, g)

\* C19: Remove and Unassign leave the membership of every resource whose
\* reverse entry maps to a group they do not name as it was, and the forward
\* sequences of the groups they do not name; Unassign leaves the indices of
\* the other kind unchanged.
C19_OnlyNamedGroup ==
    [][/\ last'.op = "UnassignThing" =>
              /\ OthersKept({last'.groupID}, things, thingMembership,
                            things', thingMembership')
              /\ UNCHANGED <<channels, channelMembership>>
       /\ last'.op = "UnassignChannel" =>
              /\ OthersKept({last'.groupID}, channels, channelMembership,
                            channels', channelMembership')
              /\ UNCHANGED <<things, thingMembership>>
       /\ last'.op = "Remove" =>
              /\ OthersKept(Range(last'.ids), things, thingMembership,
                            things', thingMembership')
              /\ OthersKept(Range(last'.ids), channels, channelMembership,
                            channels', channelMembership')]_vars

\* ------------------------------------------------------------------ pagination, positions read
\* One group's sequence of things, or of channels, grows one member at a time
\* to every length up to MaxPage, and every page request is made of it.
NextRange ==
    /\ OneCaller
    /\ \/ \E g \in PlainGroups : g.ID = "G1" /\ Save(g)
       \/ /\ ThingsOnly /\ Room(things, "G1", <<"T1">>, MaxPage)
          /\ AssignThing("G1", <<"T1">>)
       \/ /\ ChannelsOnly /\ Room(channels, "G1", <<"C1">>, MaxPage)
          /\ AssignChannel("G1", <<"C1">>)
       \/ \E pm \in PageMetadatas : RetrieveGroupThings("o1", "G1", pm)
       \/ \E pm \in PageMetadatas : RetrieveGroupChannels("o1", "G1", pm)

SpecRange == Init /\ [][NextRange]_vars

\* C20: whatever the length of the forward sequence and whatever Offset and
\* Limit are, the loop of RetrieveGroupThings and RetrieveGroupChannels reads
\* positions of the sequence only, and the call returns a page and no panic.
C20_PageInRange ==
    PagedCall =>
        LET s == SliceAt(PagedKind, last.groupID) IN
        /\ last.err = ErrNil
        /\ \A i \in PageIndices(last.pm, Len(s)) : 0 <= i /\ i < Len(s)
        /\ Len(last.res.Items) = Cardinality(PageIndices(last.pm, Len(s)))

\* C20 witness: a page has been returned for a non-empty sequence with Offset
\* past its end and Offset + Limit past the largest unsigned value, wrapping
\* to a position inside the sequence.
C20_Witness ==
    /\ PagedCall /\ last.err = ErrNil
    /\ LET s == SliceAt(PagedKind, last.groupID) IN
       /\ last.pm.Offset > Len(s)
       /\ last.pm.Offset + last.pm.Limit >= UintMod
       /\ (last.pm.Offset + last.pm.Limit) % UintMod \in 1..(Len(s) - 1)

\* ------------------------------------------------------------------ concurrent callers
\* The five maps as one value.
CoreRec ==
    [groups |-> groups, thingMembership |-> thingMembership, things |-> things,
     channelMembership |-> channelMembership, channels |-> channels]

\* A call as it is when it reaches grm.mu.Lock().
NewCall(op, groupID, ids, group) ==
    [IdleCall EXCEPT !.pc = "lock", !.op = op, !.groupID = groupID, !.ids = ids,
                     !.group = group, !.i = 1]

\* The calls the goroutines make: on group G1, thing T1 and channel C1, with
\* lists of one thing, of MaxLen things and of one channel.
LockCalls ==
    {NewCall("Save", g.ID, <<>>, g) : g \in {h \in PlainGroups : h.ID = "G1"}}
    \cup {NewCall("Update", g.ID, <<>>, g) :
              g \in {h \in ProfileGroups \ PlainGroups : h.ID = "G1"}}
    \cup {NewCall("Remove", "", <<"G1">>, ZeroGroup)}
    \cup {[NewCall("RetrieveGroupThings", "G1", <<>>, ZeroGroup)
               EXCEPT !.pm = [Offset |-> 0, Limit |-> MaxLen]]}
    \cup {NewCall(op, "G1", ids, ZeroGroup) :
              op \in {"AssignThing", "UnassignThing"},
              ids \in {l \in SeqsUpTo({"T1"}, MaxLen) : Len(l) \in {1, MaxLen}}}
    \cup {NewCall(op, "G1", ids, ZeroGroup) :
              op \in {"AssignChannel", "UnassignChannel"},
              ids \in {<<"C1">>}}
    \cup {NewCall("RetrieveThingMembership", "", <<"T1">>, ZeroGroup),
          NewCall("RetrieveChannelMembership", "", <<"C1">>, ZeroGroup)}

\* The number of IDs in the lists of the calls op that goroutines of S are in.
RECURSIVE Pending(_, _)
Pending(op, S) ==
    IF S = {} THEN 0
    ELSE LET p == CHOOSE q \in S : TRUE
         IN  (IF calls[p].op = op THEN Len(calls[p].ids) ELSE 0) + Pending(op, S \ {p})

\* Goroutine p calls an operation; an AssignThing call is made while the
\* group's sequence, with the lists of the AssignThing calls under way, stays
\* within MaxLen, and an AssignChannel call while the group has no channel and
\* no other AssignChannel call is under way.
Call(p, c) ==
    /\ calls[p].pc = "idle"
    /\ c.op = "AssignThing" =>
           Len(SliceAt(things, c.groupID)) + Pending(c.op, Goroutines) + Len(c.ids)
               <= MaxLen
    /\ c.op = "AssignChannel" =>
           Len(SliceAt(channels, c.groupID)) + Pending(c.op, Goroutines) = 0
    /\ calls' = [calls EXCEPT ![p] = c]
    /\ UNCHANGED <<groups, thingMembership, things, channelMembership, channels,
                   last, mu>>

\* grm.mu.Lock() without the wait: it returns whoever holds the mutex.
LockNoWait(p) ==
    /\ calls[p].pc = "lock"
    /\ mu' = p
    /\ calls' = [calls EXCEPT ![p].pc = "check", ![p].snap = CoreRec]
    /\ UNCHANGED <<groups, thingMembership, things, channelMembership, channels, last>>

\* grm.mu.Lock(): p waits until the mutex is free and takes it.  snap records
\* the maps as they are at that moment.
Lock(p) ==
    /\ calls[p].pc = "lock"
    /\ mu = Unlocked
    /\ mu' = p
    /\ calls' = [calls EXCEPT ![p].pc = "check", ![p].snap = CoreRec]
    /\ UNCHANGED <<groups, thingMembership, things, channelMembership, channels, last>>

\* A return statement: the results are set, the deferred Unlock is still to run.
Return(c, res, err) == [c EXCEPT !.pc = "unlock", !.res = res, !.err = err]

\* The deferred grm.mu.Unlock(), and the return to the caller.
Unlock(p) ==
    /\ calls[p].pc = "unlock"
    /\ mu' = Unlocked
    /\ calls' = [calls EXCEPT ![p] = IdleCall]
    /\ UNCHANGED <<groups, thingMembership, things, channelMembership, channels, last>>

\* Save, statement by statement.
SaveStep(p) ==
    LET c == calls[p] IN
    /\ c.op = "Save" /\ c.pc \in {"check", "write"}
    /\ IF c.pc = "check"
       THEN /\ calls' = [calls EXCEPT ![p] =
                             IF c.group.ID \in DOMAIN groups
                             THEN Return(c, ZeroGroup, ErrConflict)
                             ELSE [c EXCEPT !.pc = "write"]]
            /\ UNCHANGED groups
       ELSE /\ groups' = MapSet(groups, c.group.ID, c.group)
            /\ calls' = [calls EXCEPT ![p] = Return(c, c.group, ErrNil)]
    /\ UNCHANGED <<thingMembership, things, channelMembership, channels, last, mu>>

\* Update, statement by statement: loc is the local copy up, now the value of
\* time.Now(), a time after the zero time.
UpdateStep(p) ==
    LET c == calls[p] IN
    /\ c.op = "Update" /\ c.pc \in {"check", "write"}
    /\ IF c.pc = "check"
       THEN /\ \E now \in Times \ {ZeroGroup.UpdatedAt} :
                   calls' = [calls EXCEPT ![p] =
                                 IF c.group.ID \notin DOMAIN groups
                                 THEN Return(c, ZeroGroup, ErrNotFound)
                                 ELSE [c EXCEPT !.pc = "write", !.now = now,
                                                !.loc = UpdateEntry(groups[c.group.ID],
                                                                    c.group, now)]]
            /\ UNCHANGED groups
       ELSE /\ groups' = MapSet(groups, c.group.ID, c.loc)
            /\ calls' = [calls EXCEPT ![p] = Return(c, c.loc, ErrNil)]
    /\ UNCHANGED <<thingMembership, things, channelMembership, channels, last, mu>>

\* Remove, statement by statement: for the group ids[i], loc is the sequence
\* the cascade ranges over and j the position in it.
RemoveStep(p) ==
    LET c == calls[p] IN
    /\ c.op = "Remove" /\ c.pc \in {"check", "things", "channels", "delete"}
    /\ CASE c.pc = "check" ->
              /\ calls' = [calls EXCEPT ![p] =
                               IF c.i > Len(c.ids) THEN Return(c, "", ErrNil)
                               ELSE IF c.ids[c.i] \notin DOMAIN groups
                               THEN Return(c, "", ErrNotFound)
                               ELSE [c EXCEPT !.pc = "things", !.j = 1,
                                              !.loc = SliceAt(things, c.ids[c.i])]]
              /\ UNCHANGED <<groups, thingMembership, channelMembership>>
         [] c.pc = "things" ->
              IF c.j > Len(c.loc)
              THEN /\ calls' = [calls EXCEPT ![p] =
                                    [c EXCEPT !.pc = "channels", !.j = 1,
                                              !.loc = SliceAt(channels, c.ids[c.i])]]
                   /\ UNCHANGED <<groups, thingMembership, channelMembership>>
              ELSE /\ thingMembership' = MapDelete(thingMembership, {c.loc[c.j]})
                   /\ calls' = [calls EXCEPT ![p].j = c.j + 1]
                   /\ UNCHANGED <<groups, channelMembership>>
         [] c.pc = "channels" ->
              IF c.j > Len(c.loc)
              THEN /\ calls' = [calls EXCEPT ![p] =
                                    [c EXCEPT !.pc = "delete", !.j = 0, !.loc = <<>>]]
                   /\ UNCHANGED <<groups, thingMembership, channelMembership>>
              ELSE /\ channelMembership' = MapDelete(channelMembership, {c.loc[c.j]})
                   /\ calls' = [calls EXCEPT ![p].j = c.j + 1]
                   /\ UNCHANGED <<groups, thingMembership>>
         [] c.pc = "delete" ->
              /\ groups' = MapDelete(groups, {c.ids[c.i]})
              /\ calls' = [calls EXCEPT ![p] = [c EXCEPT !.pc = "check", !.i = c.i + 1]]
              /\ UNCHANGED <<thingMembership, channelMembership>>
    /\ UNCHANGED <<things, channels, last, mu>>

\* AssignThing, statement by statement.
AssignThingStep(p) ==
    LET c == calls[p] IN
    /\ c.op = "AssignThing" /\ c.pc \in {"check", "init", "append", "member"}
    /\ CASE c.pc = "check" ->
              /\ calls' = [calls EXCEPT ![p] =
                               IF c.groupID \notin DOMAIN groups
                               THEN Return(c, "", ErrNotFound)
                               ELSE [c EXCEPT !.pc = "init"]]
              /\ UNCHANGED <<things, thingMembership>>
         [] c.pc = "init" ->
              /\ things' = IF c.groupID \in DOMAIN things THEN things
                           ELSE MapSet(things, c.groupID, <<>>)
              /\ calls' = [calls EXCEPT ![p].pc = "append"]
              /\ UNCHANGED thingMembership
         [] c.pc = "append" ->
              IF c.i > Len(c.ids)
              THEN /\ calls' = [calls EXCEPT ![p] = Return(c, "", ErrNil)]
                   /\ UNCHANGED <<things, thingMembership>>
              ELSE /\ things' = MapSet(things, c.groupID,
                                       Append(SliceAt(things, c.groupID), c.ids[c.i]))
                   /\ calls' = [calls EXCEPT ![p].pc = "member"]
                   /\ UNCHANGED thingMembership
         [] c.pc = "member" ->
              /\ thingMembership' = MapSet(thingMembership, c.ids[c.i], c.groupID)
              /\ calls' = [calls EXCEPT ![p] = [c EXCEPT !.pc = "append", !.i = c.i + 1]]
              /\ UNCHANGED things
    /\ UNCHANGED <<groups, channelMembership, channels, last, mu>>

\* UnassignThing, statement by statement: loc is the local slice things and j
\* the position of the ID in it.
UnassignThingStep(p) ==
    LET c == calls[p] IN
    /\ c.op = "UnassignThing" /\ c.pc \in {"check", "lookup", "cut", "forget"}
    /\ CASE c.pc = "check" ->
              /\ calls' = [calls EXCEPT ![p] =
                               IF c.groupID \notin DOMAIN groups
                               THEN Return(c, "", ErrNotFound)
                               ELSE [c EXCEPT !.pc = "lookup"]]
              /\ UNCHANGED <<things, thingMembership>>
         [] c.pc = "lookup" ->
              /\ calls' = [calls EXCEPT ![p] =
                               IF c.i > Len(c.ids) THEN Return(c, "", ErrNil)
                               ELSE IF c.groupID \notin DOMAIN things
                               THEN Return(c, "", ErrNotFound)
                               ELSE IF FirstIndex(things[c.groupID], c.ids[c.i]) = 0
                               THEN [c EXCEPT !.i = c.i + 1]
                               ELSE [c EXCEPT !.pc = "cut", !.loc = things[c.groupID],
                                              !.j = FirstIndex(things[c.groupID],
                                                               c.ids[c.i])]]
              /\ UNCHANGED <<things, thingMembership>>
         [] c.pc = "cut" ->
              /\ things' = MapSet(things, c.groupID, RemoveAt(c.loc, c.j))
              /\ calls' = [calls EXCEPT ![p] =
                               [c EXCEPT !.pc = "forget", !.j = 0, !.loc = <<>>]]
              /\ UNCHANGED thingMembership
         [] c.pc = "forget" ->
              /\ thingMembership' = MapDelete(thingMembership, {c.ids[c.i]})
              /\ calls' = [calls EXCEPT ![p] = [c EXCEPT !.pc = "lookup", !.i = c.i + 1]]
              /\ UNCHANGED things
    /\ UNCHANGED <<groups, channelMembership, channels, last, mu>>

\* RetrieveThingMembership: one read of the reverse index.
RetrieveThingMembershipStep(p) ==
    LET c == calls[p] IN
    /\ c.op = "RetrieveThingMembership" /\ c.pc = "check"
    /\ calls' = [calls EXCEPT ![p] =
                     Return(c, ThingMembershipResult(c.ids[1]).res,
                            ThingMembershipResult(c.ids[1]).err)]
    /\ UNCHANGED <<groups, thingMembership, things, channelMembership, channels,
                   last, mu>>

\* RetrieveGroupThings, statement by statement: loc is the local slice ths.
RetrieveGroupThingsStep(p) ==
    LET c == calls[p] IN
    /\ c.op = "RetrieveGroupThings" /\ c.pc \in {"check", "copy"}
    /\ calls' = [calls EXCEPT ![p] =
                     IF c.pc = "copy" THEN Return(c, Page(c.loc, c.pm).res,
                                                  Page(c.loc, c.pm).err)
                     ELSE IF c.groupID \notin DOMAIN things
                     THEN Return(c, [Items |-> <<>>, Total |-> 0], ErrNotFound)
                     ELSE [c EXCEPT !.pc = "copy", !.loc = things[c.groupID]]]
    /\ UNCHANGED <<groups, thingMembership, things, channelMembership, channels,
                   last, mu>>

\* AssignChannel, statement by statement.
AssignChannelStep(p) ==
    LET c == calls[p] IN
    /\ c.op = "AssignChannel" /\ c.pc \in {"check", "append", "member"}
    /\ CASE c.pc = "check" ->
              /\ calls' = [calls EXCEPT ![p] =
                               IF c.groupID \notin DOMAIN groups
                               THEN Return(c, "", ErrNotFound)
                               ELSE [c EXCEPT !.pc = "append"]]
              /\ UNCHANGED <<channels, channelMembership>>
         [] c.pc = "append" ->
              IF c.i > Len(c.ids)
              THEN /\ calls' = [calls EXCEPT ![p] = Return(c, "", ErrNil)]
                   /\ UNCHANGED <<channels, channelMembership>>
              ELSE /\ channels' = MapSet(channels, c.groupID,
                                         Append(SliceAt(channels, c.groupID), c.ids[c.i]))
                   /\ calls' = [calls EXCEPT ![p].pc = "member"]
                   /\ UNCHANGED channelMembership
         [] c.pc = "member" ->
              /\ channelMembership' = MapSet(channelMembership, c.ids[c.i], c.groupID)
              /\ calls' = [calls EXCEPT ![p] = [c EXCEPT !.pc = "append", !.i = c.i + 1]]
              /\ UNCHANGED channels
    /\ UNCHANGED <<groups, thingMembership, things, last, mu>>

\* UnassignChannel, statement by statement.
UnassignChannelStep(p) ==
    LET c == calls[p] IN
    /\ c.op = "UnassignChannel" /\ c.pc \in {"check", "lookup", "cut", "forget"}
    /\ CASE c.pc = "check" ->
              /\ calls' = [calls EXCEPT ![p] =
                               IF c.groupID \notin DOMAIN groups
                               THEN Return(c, "", ErrNotFound)
                               ELSE [c EXCEPT !.pc = "lookup"]]
              /\ UNCHANGED <<channels, channelMembership>>
         [] c.pc = "lookup" ->
              /\ calls' = [calls EXCEPT ![p] =
                               IF c.i > Len(c.ids) THEN Return(c, "", ErrNil)
                               ELSE IF c.groupID \notin DOMAIN channels
                               THEN Return(c, "", ErrNotFound)
                               ELSE IF FirstIndex(channels[c.groupID], c.ids[c.i]) = 0
                               THEN [c EXCEPT !.i = c.i + 1]
                               ELSE [c EXCEPT !.pc = "cut", !.loc = channels[c.groupID],
                                              !.j = FirstIndex(channels[c.groupID],
                                                               c.ids[c.i])]]
              /\ UNCHANGED <<channels, channelMembership>>
         [] c.pc = "cut" ->
              /\ channels' = MapSet(channels, c.groupID, RemoveAt(c.loc, c.j))
              /\ calls' = [calls EXCEPT ![p] =
                               [c EXCEPT !.pc = "forget", !.j = 0, !.loc = <<>>]]
              /\ UNCHANGED channelMembership
         [] c.pc = "forget" ->
              /\ channelMembership' = MapDelete(channelMembership, {c.ids[c.i]})
              /\ calls' = [calls EXCEPT ![p] = [c EXCEPT !.pc = "lookup", !.i = c.i + 1]]
              /\ UNCHANGED channels
    /\ UNCHANGED <<groups, thingMembership, things, last, mu>>

\* RetrieveChannelMembership: one read of the reverse index.
RetrieveChannelMembershipStep(p) ==
    LET c == calls[p] IN
    /\ c.op = "RetrieveChannelMembership" /\ c.pc = "check"
    /\ calls' = [calls EXCEPT ![p] =
                     Return(c, ChannelMembershipResult(c.ids[1]).res,
                            ChannelMembershipResult(c.ids[1]).err)]
    /\ UNCHANGED <<groups, thingMembership, things, channelMembership, channels,
                   last, mu>>

\* The next statement of the call p is in, between Lock and the return.
Statement(p) ==
    \/ SaveStep(p)
    \/ UpdateStep(p)
    \/ RemoveStep(p)
    \/ AssignThingStep(p)
    \/ UnassignThingStep(p)
    \/ RetrieveThingMembershipStep(p)
    \/ RetrieveGroupThingsStep(p)
    \/ AssignChannelStep(p)
    \/ UnassignChannelStep(p)
    \/ RetrieveChannelMembershipStep(p)

NextLock ==
    \/ \E p \in Goroutines, c \in LockCalls : Call(p, c)
    \/ \E p \in Goroutines : Lock(p)
    \/ \E p \in Goroutines : Statement(p)
    \/ \E p \in Goroutines : Unlock(p)

\* The goroutine scheduler runs every goroutine that can take a step, and
\* sync.Mutex hands the mutex to a goroutine that has waited for it (starvation
\* mode), so a waiting Lock is not passed over for ever.
SpecLock ==
    /\ Init
    /\ [][NextLock]_vars
    /\ \A p \in Goroutines :
           WF_vars(Statement(p)) /\ WF_vars(Unlock(p)) /\ SF_vars(Lock(p))

\* Remove as one step from the maps st.
RECURSIVE SerialRemove(_, _)
SerialRemove(ids, st) ==
    IF ids = <<>> THEN [st |-> st, res |-> "", err |-> ErrNil]
    ELSE IF Head(ids) \notin DOMAIN st.groups
    THEN [st |-> st, res |-> "", err |-> ErrNotFound]
    ELSE SerialRemove(
             Tail(ids),
             [st EXCEPT !.groups = MapDelete(@, {Head(ids)}),
                        !.thingMembership = Cascade(@, SliceAt(st.things, Head(ids))),
                        !.channelMembership =
                            Cascade(@, SliceAt(st.channels, Head(ids)))])

\* The call c as one step from the maps st: the maps, the result and the
\* error it leaves.
Serial(c, st) ==
    CASE c.op = "Save" ->
             IF c.group.ID \in DOMAIN st.groups
             THEN [st |-> st, res |-> ZeroGroup, err |-> ErrConflict]
             ELSE [st |-> [st EXCEPT !.groups = MapSet(@, c.group.ID, c.group)],
                   res |-> c.group, err |-> ErrNil]
      [] c.op = "Update" ->
             IF c.group.ID \notin DOMAIN st.groups
             THEN [st |-> st, res |-> ZeroGroup, err |-> ErrNotFound]
             ELSE LET up == UpdateEntry(st.groups[c.group.ID], c.group, c.now)
                  IN  [st |-> [st EXCEPT !.groups = MapSet(@, c.group.ID, up)],
                       res |-> up, err |-> ErrNil]
      [] c.op = "Remove" -> SerialRemove(c.ids, st)
      [] c.op = "AssignThing" ->
             IF c.groupID \notin DOMAIN st.groups
             THEN [st |-> st, res |-> "", err |-> ErrNotFound]
             ELSE LET r == AssignThingLoop(
                               c.groupID, c.ids,
                               IF c.groupID \in DOMAIN st.things THEN st.things
                               ELSE MapSet(st.things, c.groupID, <<>>),
                               st.thingMembership)
                  IN  [st |-> [st EXCEPT !.things = r.things,
                                         !.thingMembership = r.thingMembership],
                       res |-> "", err |-> ErrNil]
      [] c.op = "UnassignThing" ->
             IF c.groupID \notin DOMAIN st.groups
             THEN [st |-> st, res |-> "", err |-> ErrNotFound]
             ELSE LET r == UnassignThingLoop(c.groupID, c.ids, st.things,
                                             st.thingMembership)
                  IN  [st |-> [st EXCEPT !.things = r.things,
                                         !.thingMembership = r.thingMembership],
                       res |-> "", err |-> r.err]
      [] c.op = "AssignChannel" ->
             IF c.groupID \notin DOMAIN st.groups
             THEN [st |-> st, res |-> "", err |-> ErrNotFound]
             ELSE LET r == AssignChannelLoop(c.groupID, c.ids, st.channels,
                                             st.channelMembership)
                  IN  [st |-> [st EXCEPT !.channels = r.channels,
                                         !.channelMembership = r.channelMembership],
                       res |-> "", err |-> ErrNil]
      [] c.op = "UnassignChannel" ->
             IF c.groupID \notin DOMAIN st.groups
             THEN [st |-> st, res |-> "", err |-> ErrNotFound]
             ELSE LET r == UnassignChannelLoop(c.groupID, c.ids, st.channels,
                                               st.channelMembership)
                  IN  [st |-> [st EXCEPT !.channels = r.channels,
                                         !.channelMembership = r.channelMembership],
                       res |-> "", err |-> r.err]
      [] c.op = "RetrieveGroupThings" ->
             IF c.groupID \notin DOMAIN st.things
             THEN [st |-> st, res |-> [Items |-> <<>>, Total |-> 0], err |-> ErrNotFound]
             ELSE [st |-> st, res |-> Page(st.things[c.groupID], c.pm).res,
                   err |-> Page(st.things[c.groupID], c.pm).err]
      [] c.op = "RetrieveThingMembership" ->
             IF c.ids[1] \in DOMAIN st.thingMembership
             THEN [st |-> st, res |-> st.thingMembership[c.ids[1]], err |-> ErrNil]
             ELSE [st |-> st, res |-> "", err |-> ErrNotFound]
      [] c.op = "RetrieveChannelMembership" ->
             IF c.ids[1] \in DOMAIN st.channelMembership
             THEN [st |-> st, res |-> st.channelMembership[c.ids[1]], err |-> ErrNil]
             ELSE [st |-> st, res |-> "", err |-> ErrNotFound]

\* The goroutines that are between Lock and Unlock.
Inside == {p \in Goroutines : calls[p].pc \notin {"idle", "lock"}}

\* A goroutine between Lock and Unlock holds the mutex, so there is one at most.
MutualExclusion ==
    /\ \A p \in Inside : mu = p
    /\ mu # Unlocked => mu \in Inside

\* A call that has reached its return leaves the maps, the result and the
\* error that the call as one step leaves from the maps it found at Lock.
ReturnsSerial ==
    \A p \in Goroutines :
        calls[p].pc = "unlock" =>
            LET r == Serial(calls[p], calls[p].snap) IN
            /\ CoreRec = r.st
            /\ calls[p].res = r.res
            /\ calls[p].err = r.err

\* The maps change in the steps of the goroutine that holds the mutex only, and
\* a goroutine takes the mutex with the maps as the last Unlock left them.
OnlyHolderWrites ==
    /\ Core' # Core =>
           /\ mu \in Inside /\ mu' = mu
           /\ \A q \in Goroutines \ {mu} : calls'[q] = calls[q]
    /\ \A p \in Goroutines :
           (calls[p].pc = "lock" /\ calls'[p].pc = "check") =>
               /\ Inside = {}
               /\ calls'[p].snap = CoreRec

\* C12: a call holds the mutex from its first read to its return (no two
\* goroutines are between Lock and Unlock); the maps change only in the
\* holder's steps, so no call reads another call's half-made update; every
\* call, on its success and its error returns, leaves what the call as one
\* step leaves from the maps it found when it took the mutex, so the calls
\* are serial in the order of their Locks; and every call returns.
C12_LockSerializes ==
    /\ []MutualExclusion
    /\ []ReturnsSerial
    /\ [][OnlyHolderWrites]_vars
    /\ \A p \in Goroutines : (calls[p].pc # "idle") ~> (calls[p].pc = "idle")

\* C12 witness: one goroutine is at the return of an AssignThing call of
\* MaxLen IDs while the other goroutine waits in Lock for a Remove.
C12_Witness ==
    \E p \in Goroutines, q \in Goroutines :
        /\ calls[p].pc = "unlock" /\ calls[p].op = "AssignThing"
        /\ Len(calls[p].ids) = MaxLen /\ calls[p].err = ErrNil
        /\ calls[q].pc = "lock" /\ calls[q].op = "Remove"

====
